---- MODULE Spec2Model ----
(***************************************************************************)
(* Research assistant: three mock tool functions (tools.py), a sequential  *)
(* three-agent pipeline with a pre-model guardrail (agent.py) and a web    *)
(* server with a synchronous and a streaming chat endpoint (server.py).    *)
(*                                                                         *)
(* Text is modelled by TLA+ strings, character by character: f-strings by  *)
(* concatenation, str.upper() by a character map, `in` by substring        *)
(* search, list slicing by Python's slice rules.                           *)
(*                                                                         *)
(* A request is served in the steps its awaits and yields give it: the     *)
(* session lookup, the session's creation, the start of the run, one step  *)
(* per event of the run, one per further frame of an event, the end of     *)
(* the run, the end of the stream. Steps of other requests fall between.   *)
(***************************************************************************)
EXTENDS Integers, Sequences, FiniteSets, TLC

VARIABLES
    probe,   \* one call of a pure function: its arguments and its result
    store,   \* session_service: session id -> [user, state, history]
    req,     \* the HTTP requests being served, one record per request
    scn      \* what the environment (clients, reasoning service) may do

vars == <<probe, store, req, scn>>

-----------------------------------------------------------------------------
(* Bounds of the model.                                                    *)

\* max_results is drawn from -MaxResultsArg .. MaxResultsArg
MaxResultsArg == 12
\* an llm_request holds at most MaxContents contents
MaxContents == 3
\* the reasoning service requests at most MaxToolCalls tools in one stage
MaxToolCalls == 1

-----------------------------------------------------------------------------
(* Strings.                                                                *)

Min(a, b) == IF a <= b THEN a ELSE b
Max(a, b) == IF a >= b THEN a ELSE b

CharAt(s, i) == SubSeq(s, i, i)

Lower == "abcdefghijklmnopqrstuvwxyz"
Upper == "ABCDEFGHIJKLMNOPQRSTUVWXYZ"

UpperMap ==
    [c \in { CharAt(Lower, i) : i \in 1..26 } |->
       CharAt(Upper, CHOOSE i \in 1..26 : CharAt(Lower, i) = c)]

\* str.upper() on one ASCII character
UpperChar(c) == IF c \in DOMAIN UpperMap THEN UpperMap[c] ELSE c

RECURSIVE StrUpper(_)
StrUpper(s) ==
    IF s = "" THEN ""
    ELSE UpperChar(CharAt(s, 1)) \o StrUpper(SubSeq(s, 2, Len(s)))

\* Python's `sub in s`
StrContains(sub, s) ==
    \E i \in 1..(Len(s) - Len(sub) + 1) : SubSeq(s, i, i + Len(sub) - 1) = sub

Digits == "0123456789"

\* str(int): the decimal form, "-" before a negative number
RECURSIVE NatStr(_)
NatStr(n) ==
    IF n < 10 THEN CharAt(Digits, n + 1)
    ELSE NatStr(n \div 10) \o CharAt(Digits, (n % 10) + 1)

IntStr(n) == IF n < 0 THEN "-" \o NatStr(0 - n) ELSE NatStr(n)

\* Python's seq[:stop] for a list
SliceTo(seq, stop) ==
    LET n == Len(seq)
        hi == IF stop < 0 THEN Max(n + stop, 0) ELSE Min(stop, n)
    IN  SubSeq(seq, 1, hi)

-----------------------------------------------------------------------------
(* tools.py                                                                *)

search_articles_candidates(topic) ==
    << [title   |-> "Advances in " \o topic \o ": A 2024 Review",
        summary |-> "This paper reviews recent developments in " \o topic
                    \o ", highlighting key breakthroughs and future directions.",
        source  |-> "Journal of AI Research",
        year    |-> 2024],
       [title   |-> "Understanding " \o topic \o ": Challenges and Opportunities",
        summary |-> "An analysis of current challenges in " \o topic
                    \o " and emerging opportunities for researchers.",
        source  |-> "Nature Reviews",
        year    |-> 2024],
       [title   |-> "Practical Applications of " \o topic,
        summary |-> "A survey of real-world applications of " \o topic
                    \o " across different industries.",
        source  |-> "IEEE Transactions",
        year    |-> 2023] >>

\* a faulty variant: the slice drops the last requested article (articles[:max_results - 1])
search_articles_short(topic, max_results, now) ==
    [topic       |-> topic,
     articles    |-> SliceTo(search_articles_candidates(topic), max_results - 1),
     total_found |-> Len(search_articles_candidates(topic)),
     search_date |-> now]

\* `now` is datetime.now().isoformat(), read from the clock
search_articles(topic, max_results, now) ==
    [topic       |-> topic,
     articles    |-> SliceTo(search_articles_candidates(topic), max_results),
     total_found |-> Len(search_articles_candidates(topic)),
     search_date |-> now]

\* a faulty variant: the period after the title is left out
format_citation_noperiod(title, source, year) ==
    "\"" \o title \o "\" " \o source \o ", " \o IntStr(year) \o "."

format_citation(title, source, year) ==
    "\"" \o title \o ".\" " \o source \o ", " \o IntStr(year) \o "."

-----------------------------------------------------------------------------
(* Contents and parts (google.genai.types), as far as the code reads them. *)

TextPart(t)     == [kind |-> "text", text |-> t, name |-> ""]
CallPart(n)     == [kind |-> "function_call", text |-> "", name |-> n]
ResponsePart(n) == [kind |-> "function_response", text |-> "", name |-> n]

\* `hasattr(part, "text") and part.text`
HasText(part) == part.text # ""

Content(role, parts) == [role |-> role, parts |-> parts]

None == [role |-> "none", parts |-> << >>]

-----------------------------------------------------------------------------
(* agent.py: the callbacks.                                                *)

before_agent_callback(agent_name) == None

BlockedResponse ==
    Content("model", << TextPart("Request blocked by safety guardrail.") >>)

\* llm_request is [present, contents]; an absent request is falsy
before_model_callback(llm_request) ==
    IF /\ llm_request.present
       /\ \E i \in 1..Len(llm_request.contents) :
            \E j \in 1..Len(llm_request.contents[i].parts) :
               LET part == llm_request.contents[i].parts[j]
               IN  HasText(part) /\ StrContains("BLOCKED", StrUpper(part.text))
    THEN BlockedResponse
    ELSE None

-----------------------------------------------------------------------------
(* Pure-function probes: the arguments are drawn in Init, one action per   *)
(* function applies it.                                                    *)

NoResult == [none |-> TRUE]

Topics  == {"", "AI", "machine learning"}
Clock   == {"2024-05-01T10:00:00"}
Titles  == {"", "Test Paper", "AI Survey"}
Sources == {"Nature", "IEEE"}
Years   == {-12, 0, 7, 2023, 2024}

SearchProbes ==
    [fn : {"search_articles"}, topic : Topics,
     max_results : (0 - MaxResultsArg)..MaxResultsArg, now : Clock,
     applied : {FALSE}, result : {NoResult}]

CitationProbes ==
    [fn : {"format_citation"}, title : Titles, source : Sources, year : Years,
     applied : {FALSE}, result : {NoResult}]

IdleProbe == [fn |-> "none", applied |-> FALSE, result |-> NoResult]

Call_search_articles ==
    /\ probe.fn = "search_articles"
    /\ ~probe.applied
    /\ probe' = [probe EXCEPT
                   !.applied = TRUE,
                   !.result = search_articles(probe.topic, probe.max_results, probe.now)]
    /\ UNCHANGED <<store, req, scn>>

Call_format_citation ==
    /\ probe.fn = "format_citation"
    /\ ~probe.applied
    /\ probe' = [probe EXCEPT
                   !.applied = TRUE,
                   !.result = format_citation(probe.title, probe.source, probe.year)]
    /\ UNCHANGED <<store, req, scn>>

GuardTexts == {"", "hello", "This is Blocked"}

\* what one content of an llm_request may be: a user's or the model's text,
\* the model's tool request, a tool's result (a user content without text)
GuardContents ==
    { Content(role, << TextPart(t) >>) : role \in {"user", "model"}, t \in GuardTexts }
    \cup { Content("model", << CallPart("search_articles") >>),
           Content("user", << ResponsePart("search_articles") >>) }

GuardProbes ==
    [fn : {"before_model_callback"},
     llm_request : [present : BOOLEAN,
                    contents : UNION { [1..n -> GuardContents] : n \in 0..MaxContents }],
     applied : {FALSE}, result : {NoResult}]

Call_before_model_callback ==
    /\ probe.fn = "before_model_callback"
    /\ ~probe.applied
    /\ probe' = [probe EXCEPT
                   !.applied = TRUE,
                   !.result = before_model_callback(probe.llm_request)]
    /\ UNCHANGED <<store, req, scn>>

-----------------------------------------------------------------------------
(* agent.py: the three agents and the pipeline.                            *)

\* a faulty variant: the researcher is configured without the guardrail
researcher_unguarded ==
    [name        |-> "researcher",
     instruction |-> "You are a research specialist. When given a topic:\n1. Use search_articles to find relevant papers\n2. Use get_topic_stats to get publication statistics\n3. Summarize your findings concisely\n\nAlways include specific data from the tools in your summary.",
     tools       |-> <<"search_articles", "get_topic_stats">>,
     output_key  |-> "research_findings",
     before_agent_callback |-> TRUE,
     before_model_callback |-> FALSE]

researcher ==
    [name        |-> "researcher",
     instruction |-> "You are a research specialist. When given a topic:\n1. Use search_articles to find relevant papers\n2. Use get_topic_stats to get publication statistics\n3. Summarize your findings concisely\n\nAlways include specific data from the tools in your summary.",
     tools       |-> <<"search_articles", "get_topic_stats">>,
     output_key  |-> "research_findings",
     before_agent_callback |-> TRUE,
     before_model_callback |-> TRUE]

\* a faulty variant: the writer's template names the reviewer's output
writer_forward ==
    [name        |-> "writer",
     instruction |-> "You are a technical writer. Based on the research findings below,\nwrite a concise research summary report (3-4 paragraphs).\n\nResearch findings:\n{review_result}\n\nInclude:\n- Overview of the topic and its significance\n- Key findings from the articles\n- Publication trends and statistics\n- Recommended areas for further study\n\nUse format_citation for any article references.",
     tools       |-> <<"format_citation">>,
     output_key  |-> "draft_report",
     before_agent_callback |-> TRUE,
     before_model_callback |-> FALSE]

writer ==
    [name        |-> "writer",
     instruction |-> "You are a technical writer. Based on the research findings below,\nwrite a concise research summary report (3-4 paragraphs).\n\nResearch findings:\n{research_findings}\n\nInclude:\n- Overview of the topic and its significance\n- Key findings from the articles\n- Publication trends and statistics\n- Recommended areas for further study\n\nUse format_citation for any article references.",
     tools       |-> <<"format_citation">>,
     output_key  |-> "draft_report",
     before_agent_callback |-> TRUE,
     before_model_callback |-> FALSE]

\* a faulty variant: the reviewer stores its result under the writer's key
reviewer_samekey ==
    [name        |-> "reviewer",
     instruction |-> "You are a quality reviewer. Review this draft report:\n\n{draft_report}\n\nEvaluate on:\n1. Accuracy - Are the facts and citations correct?\n2. Clarity - Is it easy to understand?\n3. Completeness - Does it cover key aspects?\n\nProvide a quality score (1-10) and brief feedback.\nIf the score is 8 or above, approve with \"APPROVED\".\nOtherwise provide specific improvements needed.",
     tools       |-> << >>,
     output_key  |-> "draft_report",
     before_agent_callback |-> TRUE,
     before_model_callback |-> FALSE]

reviewer ==
    [name        |-> "reviewer",
     instruction |-> "You are a quality reviewer. Review this draft report:\n\n{draft_report}\n\nEvaluate on:\n1. Accuracy - Are the facts and citations correct?\n2. Clarity - Is it easy to understand?\n3. Completeness - Does it cover key aspects?\n\nProvide a quality score (1-10) and brief feedback.\nIf the score is 8 or above, approve with \"APPROVED\".\nOtherwise provide specific improvements needed.",
     tools       |-> << >>,
     output_key  |-> "review_result",
     before_agent_callback |-> TRUE,
     before_model_callback |-> FALSE]

\* root_agent.sub_agents
sub_agents == << researcher, writer, reviewer >>

NumStages == Len(sub_agents)

-----------------------------------------------------------------------------
(* Instruction templating: {key} placeholders, read from the text.         *)

\* the first position >= from at which character c stands in s, or 0
IndexFrom(c, s, from) ==
    IF \E i \in from..Len(s) : CharAt(s, i) = c
    THEN CHOOSE i \in from..Len(s) :
            /\ CharAt(s, i) = c
            /\ \A j \in from..(i - 1) : CharAt(s, j) # c
    ELSE 0

Lit(t) == [ph |-> FALSE, text |-> t]
Ph(k)  == [ph |-> TRUE, text |-> k]

\* the template as literal text and placeholders, in order
RECURSIVE Segments(_)
Segments(s) ==
    LET open  == IndexFrom("{", s, 1)
        close == IF open = 0 THEN 0 ELSE IndexFrom("}", s, open + 1)
    IN  IF s = "" THEN << >>
        ELSE IF close = 0 THEN << Lit(s) >>
        ELSE (IF open > 1 THEN << Lit(SubSeq(s, 1, open - 1)) >> ELSE << >>)
             \o << Ph(SubSeq(s, open + 1, close - 1)) >>
             \o Segments(SubSeq(s, close + 1, Len(s)))

researcher_segments == Segments(researcher.instruction)
writer_segments     == Segments(writer.instruction)
reviewer_segments   == Segments(reviewer.instruction)

InstructionSegments(k) ==
    CASE k = 1 -> researcher_segments
      [] k = 2 -> writer_segments
      [] k = 3 -> reviewer_segments

\* the output keys stage k's template names
Placeholders(k) ==
    { InstructionSegments(k)[i].text :
        i \in { j \in 1..Len(InstructionSegments(k)) : InstructionSegments(k)[j].ph } }

\* a placeholder with no value in the state stays in the prompt verbatim
RECURSIVE RenderSegments(_, _)
RenderSegments(segs, state) ==
    IF segs = << >> THEN ""
    ELSE LET h == Head(segs)
         IN  (IF ~h.ph THEN h.text
              ELSE IF h.text \in DOMAIN state THEN state[h.text]
              ELSE "{" \o h.text \o "}")
             \o RenderSegments(Tail(segs), state)

Render(k, state) == RenderSegments(InstructionSegments(k), state)

Unresolved(k, state) == Placeholders(k) \ DOMAIN state

-----------------------------------------------------------------------------
(* The session store (InMemorySessionService) and the sessions it holds.   *)

AppName == "research_assistant"

EmptyState == [k \in {} |-> ""]

Put(f, k, v) == [j \in DOMAIN f \cup {k} |-> IF j = k THEN v ELSE f[j]]

NewSession(app, user) ==
    [app |-> app, user |-> user, state |-> EmptyState, history |-> << >>]

NoSession == NewSession("", "")

\* get(app, user, session_id): the identifier of the session held under that
\* key, or "" when the store holds none
get_session(key) ==
    IF /\ key.session_id \in DOMAIN store
       /\ store[key.session_id].app = key.app_name
       /\ store[key.session_id].user = key.user_id
    THEN key.session_id
    ELSE ""

-----------------------------------------------------------------------------
(* server.py: requests, and what a handler tells the store and the runner. *)

Requests   == {1, 2}
Users      == {"default", "alice"}
SessionIds == {"s1", "s2"}
\* the session_id a client may send: none, or one that is or may come to be
\* a session's identifier
ClientSessionIds == {"", "s1"}
Kinds      == {"chat", "stream"}

IdleReq ==
    [pc |-> "idle", kind |-> "none", user_id |-> "", session_id |-> "",
     message |-> "", sess |-> "", created |-> FALSE, rsid |-> "", stage |-> 0,
     out |-> << >>, response |-> "pending",
     \* where the run stands inside its stage
     phase |-> "llm", ncalls |-> 0, tool |-> "", prompt |-> "", unresolved |-> {},
     \* frames of the event in hand that generate() has yet to yield
     pend |-> << >>,
     \* what the run did, kept for the properties
     emitted |-> << >>, llm |-> << >>, writes |-> << >>,
     base |-> NoSession, alone |-> TRUE]

\* `if session_id:`
LookupNeeded(session_id) == session_id # ""

\* a faulty variant: the lookup is made for the default user, not the caller
SessionKeyDefaultUser(user_id, session_id) ==
    [app_name |-> AppName, user_id |-> "default", session_id |-> session_id]

\* the arguments of session_service.get_session
SessionKey(user_id, session_id) ==
    [app_name |-> AppName, user_id |-> user_id, session_id |-> session_id]

\* the arguments of session_service.create_session
CreateArgs(user_id) == [app_name |-> AppName, user_id |-> user_id]

\* a faulty variant: every run is pointed at one process-wide session
RunnerArgsShared(user_id, session) ==
    [user_id |-> user_id,
     session_id |-> IF "s1" \in DOMAIN store THEN "s1" ELSE session]

\* the arguments of runner.run_async: session_id=session.id
RunnerArgs(user_id, session) == [user_id |-> user_id, session_id |-> session]

\* a faulty variant: /chat swallows the failure and answers normally
HandlerCatchesChat(kind) == kind = "chat"

\* neither chat() nor generate() has a try/except around the run
HandlerCatches(kind) == FALSE

Sentinel == "data: [DONE]\n\n"

Frame(text) == "data: " \o text \o "\n\n"

\* what a handler makes of one part of one event
PartItems(kind, event, part) ==
    IF kind = "chat"
    THEN IF HasText(part)
         THEN << [type |-> "content", text |-> part.text,
                  author |-> event.author, is_final |-> event.final] >>
         ELSE IF part.kind = "function_call"
         THEN << [type |-> "tool_call", name |-> part.name] >>
         ELSE << >>
    ELSE IF HasText(part) THEN << Frame(part.text) >> ELSE << >>

RECURSIVE PartsItems(_, _, _)
PartsItems(kind, event, parts) ==
    IF parts = << >> THEN << >>
    ELSE PartItems(kind, event, Head(parts)) \o PartsItems(kind, event, Tail(parts))

\* after the loop: the stream yields the sentinel, /chat returns
HandlerEnd(kind) == IF kind = "stream" THEN << Sentinel >> ELSE << >>

-----------------------------------------------------------------------------
(* get_or_create_session, in the two steps its awaits give it.             *)

\* A request arrives; the handler calls get_or_create_session, which looks
\* the session up when an identifier was given.
Receive(r) ==
    /\ r \in scn.reqs
    /\ req[r].pc = "idle"
    /\ \E kind \in scn.kinds[r], user_id \in Users,
          session_id \in ClientSessionIds, message \in scn.messages[r] :
         LET existing == IF LookupNeeded(session_id)
                         THEN get_session(SessionKey(user_id, session_id))
                         ELSE ""
         IN  req' = [req EXCEPT ![r] =
                       [@ EXCEPT !.kind = kind, !.user_id = user_id,
                                 !.session_id = session_id, !.message = message,
                                 !.sess = existing,
                                 !.pc = IF existing # "" THEN "start" ELSE "create"]]
    /\ UNCHANGED <<probe, store, scn>>

\* No session was found: create_session makes one under a fresh identifier.
CreateSession(r) ==
    /\ req[r].pc = "create"
    /\ \E id \in SessionIds \ DOMAIN store :
         LET a == CreateArgs(req[r].user_id)
         IN  /\ store' = [s \in DOMAIN store \cup {id} |->
                            IF s = id THEN NewSession(a.app_name, a.user_id)
                            ELSE store[s]]
             /\ req' = [req EXCEPT ![r] =
                          [@ EXCEPT !.sess = id, !.created = TRUE, !.pc = "start"]]
    /\ UNCHANGED <<probe, scn>>

-----------------------------------------------------------------------------
(* The runner: one run of the pipeline on one session, event by event.     *)

Event(author, content, final) ==
    [author |-> author, content |-> content, final |-> final]

\* the text parts that carry the given texts
RECURSIVE TextParts(_)
TextParts(texts) ==
    IF texts = << >> THEN << >>
    ELSE << TextPart(Head(texts)) >> \o TextParts(Tail(texts))

\* the text of a response: its text parts, joined
RECURSIVE PartsText(_)
PartsText(parts) ==
    IF parts = << >> THEN ""
    ELSE Head(parts).text \o PartsText(Tail(parts))

\* what the reasoning service may do when it is invoked in stage k after n
\* tool requests: request the stage's next declared tool (saying `say`
\* with the request), give its final answer `say`, or fail
Replies(k, n) ==
    (IF n < Min(MaxToolCalls, Len(sub_agents[k].tools))
     THEN [type : {"call"}, say : scn.pres] ELSE {})
    \cup [type : {"final"}, say : scn.texts]
    \cup [type : {"fail"}, say : {<< >>}]

\* The handler's loop receives one event of the run. chat() appends the
\* event's items to its list; generate() runs to its first yield, which
\* hands the consumer the frame of the event's first text part, and keeps
\* the event's further frames for the resumptions that follow.
Deliver(rq, event) ==
    LET items == PartsItems(rq.kind, event, event.content.parts)
    IN  [rq EXCEPT
           !.emitted = Append(@, event),
           !.out  = IF rq.kind = "chat" THEN @ \o items
                    ELSE IF items = << >> THEN @
                    ELSE Append(@, Head(items)),
           !.pend = IF rq.kind = "chat" \/ items = << >> THEN << >>
                    ELSE Tail(items)]

\* run_async starts: the session is fetched and the user's message appended.
RunStart(r) ==
    /\ req[r].pc = "start"
    /\ LET a   == RunnerArgs(req[r].user_id, req[r].sess)
           sid == get_session([app_name |-> AppName, user_id |-> a.user_id,
                               session_id |-> a.session_id])
           others == { q \in Requests \ {r} : req[q].pc = "run" /\ req[q].rsid = sid }
       IN  IF sid = ""
           THEN /\ req' = [req EXCEPT ![r] =
                             [@ EXCEPT !.pc = "failed", !.response = "exception"]]
                /\ UNCHANGED store
           ELSE /\ store' = [store EXCEPT ![sid].history =
                               @ \o << Content("user", << TextPart(req[r].message) >>) >>]
                /\ req' = [q \in Requests |->
                             IF q = r
                             THEN [req[r] EXCEPT !.pc = "run", !.rsid = sid, !.stage = 1,
                                                 !.base = store[sid],
                                                 !.alone = (others = {})]
                             ELSE IF q \in others
                             THEN [req[q] EXCEPT !.alone = FALSE]
                             ELSE req[q]]
    /\ UNCHANGED <<probe, scn>>

\* The service requests a tool: the request is an event of the run, and the
\* tool's result is due before the service is invoked again.
ToolRequested(r, k, say, prompt, unresolved, calls) ==
    LET a     == sub_agents[k]
        sid   == req[r].rsid
        name  == a.tools[req[r].ncalls + 1]
        event == Event(a.name, Content("model", TextParts(say) \o << CallPart(name) >>),
                       FALSE)
    IN  /\ store' = [store EXCEPT ![sid].history = Append(@, event.content)]
        /\ req' = [req EXCEPT ![r] =
                     Deliver([@ EXCEPT !.phase = "tool", !.tool = name,
                                       !.ncalls = @ + 1,
                                       !.prompt = prompt, !.unresolved = unresolved,
                                       !.llm = @ \o calls],
                             event)]

\* The stage ends with a final response: its text is stored under the
\* stage's output key, the event reaches the handler, the next stage is due.
StageDone(r, k, event, calls) ==
    LET a    == sub_agents[k]
        sid  == req[r].rsid
        text == PartsText(event.content.parts)
        last == (k = NumStages)
    IN  /\ store' = [store EXCEPT
                       ![sid].state = Put(@, a.output_key, text),
                       ![sid].history = Append(@, event.content)]
        /\ req' = [req EXCEPT ![r] =
                     Deliver([@ EXCEPT
                                !.stage = IF last THEN k ELSE k + 1,
                                !.pc = IF last THEN "end" ELSE "run",
                                !.phase = "llm", !.tool = "", !.ncalls = 0,
                                !.prompt = "", !.unresolved = {},
                                !.llm = @ \o calls,
                                !.writes = Append(@, [key |-> a.output_key,
                                                      value |-> text])],
                             event)]

\* The reasoning service fails: nothing is stored, the run ends, and the
\* failure leaves the handler unless the handler catches it.
StageFailed(r, k, calls) ==
    /\ UNCHANGED store
    /\ req' = [req EXCEPT ![r] =
                 [@ EXCEPT
                    !.pc = IF HandlerCatches(req[r].kind) THEN "end" ELSE "failed",
                    !.response = IF HandlerCatches(req[r].kind) THEN "pending"
                                 ELSE "exception",
                    !.llm = @ \o calls]]

\* The handler asks the run for its next event and the stage is to hear
\* from the reasoning service. When the stage begins the guard is asked,
\* once, and the prompt rendered; a replacement the guard returns is the
\* stage's response and the service is not invoked; otherwise the service is
\* invoked with the stage's prompt and requests a tool, answers or fails.
Invoke(r) ==
    /\ req[r].pc = "run"
    /\ req[r].phase = "llm"
    /\ req[r].pend = << >>
    /\ LET k     == req[r].stage
           a     == sub_agents[k]
           sess  == store[req[r].rsid]
           first == req[r].ncalls = 0
           enter == IF first /\ a.before_agent_callback
                    THEN before_agent_callback(a.name) ELSE None
           guard == IF first /\ a.before_model_callback
                    THEN before_model_callback(
                            [present |-> TRUE, contents |-> sess.history])
                    ELSE None
           prompt     == IF first THEN Render(k, sess.state) ELSE req[r].prompt
           unresolved == IF first THEN Unresolved(k, sess.state)
                         ELSE req[r].unresolved
       IN  IF enter # None
           THEN StageDone(r, k, Event(a.name, enter, TRUE), << >>)
           ELSE IF guard # None
           THEN StageDone(r, k, Event(a.name, guard, TRUE), << >>)
           ELSE \E reply \in Replies(k, req[r].ncalls) :
                  LET calls == << [stage |-> k, prompt |-> prompt,
                                   unresolved |-> unresolved,
                                   failed |-> (reply.type = "fail")] >>
                  IN  CASE reply.type = "call" ->
                             ToolRequested(r, k, reply.say, prompt, unresolved, calls)
                        [] reply.type = "final" ->
                             StageDone(r, k,
                                       Event(a.name,
                                             Content("model", TextParts(reply.say)),
                                             TRUE),
                                       calls)
                        [] reply.type = "fail" ->
                             StageFailed(r, k, calls)
    /\ UNCHANGED <<probe, scn>>

\* The handler asks the run for its next event and a tool's result is due:
\* the result is an event of the run.
ToolResult(r) ==
    /\ req[r].pc = "run"
    /\ req[r].phase = "tool"
    /\ req[r].pend = << >>
    /\ LET a     == sub_agents[req[r].stage]
           sid   == req[r].rsid
           event == Event(a.name, Content("user", << ResponsePart(req[r].tool) >>),
                          FALSE)
       IN  /\ store' = [store EXCEPT ![sid].history = Append(@, event.content)]
           /\ req' = [req EXCEPT ![r] =
                        Deliver([@ EXCEPT !.phase = "llm", !.tool = ""], event)]
    /\ UNCHANGED <<probe, scn>>

\* The consumer of the stream resumes generate() inside an event: the frame
\* of the event's next text part is yielded.
YieldFrame(r) ==
    /\ req[r].pc \in {"run", "end"}
    /\ req[r].pend # << >>
    /\ req' = [req EXCEPT ![r] =
                 [@ EXCEPT !.out = Append(@, Head(req[r].pend)),
                           !.pend = Tail(req[r].pend)]]
    /\ UNCHANGED <<probe, store, scn>>

\* The run has no further event: chat() returns its answer, generate()
\* yields the sentinel and waits to be resumed once more.
Finish(r) ==
    /\ req[r].pc = "end"
    /\ req[r].pend = << >>
    /\ req' = [req EXCEPT ![r] =
                 [@ EXCEPT !.out = @ \o HandlerEnd(req[r].kind),
                           !.pc = IF req[r].kind = "stream" THEN "close" ELSE "done",
                           !.response = IF req[r].kind = "stream" THEN "pending"
                                        ELSE "ok"]]
    /\ UNCHANGED <<probe, store, scn>>

\* The consumer resumes generate() after the sentinel: the generator ends
\* and with it the response.
Close(r) ==
    /\ req[r].pc = "close"
    /\ req' = [req EXCEPT ![r] = [@ EXCEPT !.pc = "done", !.response = "ok"]]
    /\ UNCHANGED <<probe, store, scn>>

-----------------------------------------------------------------------------
(* Specifications.                                                         *)

Messages == {"quantum computing", "Blocked drains"}

\* two clients of the streaming endpoint served concurrently, one of them
\* with the marker in its message; the reasoning service answers "ok" and
\* says two things with a tool request
ServerScenario ==
    [reqs     |-> Requests,
     kinds    |-> [r \in Requests |-> {"stream"}],
     messages |-> [r \in Requests |-> IF r = 1 THEN {"quantum computing"}
                                      ELSE {"Blocked drains"}],
     texts    |-> { << "ok" >> },
     pres     |-> { << "Searching", "wait" >> }]

\* one client, at either endpoint; the reasoning service says whatever it
\* likes, in one part or in two
RunScenario ==
    [reqs     |-> {1},
     kinds    |-> [r \in {1} |-> Kinds],
     messages |-> [r \in {1} |-> Messages],
     texts    |-> { << "" >>, << "ok" >>, << "[DONE]" >>, << "ok", "ok" >> },
     pres     |-> { << >>, << "Searching" >> }]

NoScenario ==
    [reqs |-> {}, kinds |-> << >>, messages |-> << >>, texts |-> {}, pres |-> {}]

ServerIdle ==
    /\ store = [s \in {} |-> NoSession]
    /\ req = [r \in Requests |-> IdleReq]

Init ==
    /\ probe = IdleProbe
    /\ scn = ServerScenario
    /\ ServerIdle

Next ==
    \/ \E r \in Requests : Receive(r)
    \/ \E r \in Requests : CreateSession(r)
    \/ \E r \in Requests : RunStart(r)
    \/ \E r \in Requests : Invoke(r)
    \/ \E r \in Requests : ToolResult(r)
    \/ \E r \in Requests : YieldFrame(r)
    \/ \E r \in Requests : Finish(r)
    \/ \E r \in Requests : Close(r)

Spec == Init /\ [][Next]_vars

InitRun ==
    /\ probe = IdleProbe
    /\ scn = RunScenario
    /\ ServerIdle

SpecRun == InitRun /\ [][Next]_vars

InitTools ==
    /\ probe \in SearchProbes \cup CitationProbes
    /\ scn = NoScenario
    /\ ServerIdle

NextTools == Call_search_articles \/ Call_format_citation

SpecTools == InitTools /\ [][NextTools]_vars

InitGuard ==
    /\ probe \in GuardProbes
    /\ scn = NoScenario
    /\ ServerIdle

NextGuard == Call_before_model_callback

SpecGuard == InitGuard /\ [][NextGuard]_vars

-----------------------------------------------------------------------------
(* Properties of the tool functions.                                       *)

SearchDone == probe.fn = "search_articles" /\ probe.applied

CitationDone == probe.fn = "format_citation" /\ probe.applied

\* the length of the fixed candidate list
CandidateCount == 3

CandidateSources == << "Journal of AI Research", "Nature Reviews", "IEEE Transactions" >>

\* C7: for max_results in 1..10 search_articles returns exactly
\* min(max_results, 3) articles, they are the first candidates in their fixed
\* order, and the result's topic is the input topic.
C7_SearchArticlesClamped ==
    (SearchDone /\ probe.max_results \in 1..10) =>
        LET n == Min(probe.max_results, CandidateCount)
            r == probe.result
        IN  /\ Len(r.articles) = n
            /\ \A i \in 1..n :
                 /\ r.articles[i] = search_articles_candidates(probe.topic)[i]
                 /\ r.articles[i].source = CandidateSources[i]
                 /\ StrContains(probe.topic, r.articles[i].title)
            /\ r.topic = probe.topic

C7_Witness ==
    /\ SearchDone
    /\ probe.topic = "machine learning"
    /\ probe.max_results = 7
    /\ Len(probe.result.articles) = 3
    /\ probe.result.articles[1].title = "Advances in machine learning: A 2024 Review"

IsDigit(c) == \E i \in 1..10 : CharAt(Digits, i) = c

RECURSIVE ParseNat(_)
ParseNat(s) ==
    IF s = "" THEN 0
    ELSE 10 * ParseNat(SubSeq(s, 1, Len(s) - 1))
         + ((CHOOSE i \in 1..10 : CharAt(Digits, i) = CharAt(s, Len(s))) - 1)

\* d is the decimal numeral of n: digits only, no leading zero, "-" iff n < 0
IsDecimalOf(d, n) ==
    LET body == IF n < 0 THEN SubSeq(d, 2, Len(d)) ELSE d
    IN  /\ n < 0 => CharAt(d, 1) = "-"
        /\ Len(body) >= 1
        /\ \A i \in 1..Len(body) : IsDigit(CharAt(body, i))
        /\ Len(body) > 1 => CharAt(body, 1) # "0"
        /\ ParseNat(body) = (IF n < 0 THEN 0 - n ELSE n)

\* C8: format_citation returns a double quote, the title, a period, a double
\* quote, a space, the source, a comma, a space, the decimal year and a
\* period; format_citation("Test Paper", "Nature", 2024) is
\* "Test Paper." Nature, 2024.
C8_FormatCitationExact ==
    CitationDone =>
        LET r == probe.result
            n == Len(probe.title)
            m == Len(probe.source)
        IN  /\ Len(r) >= n + m + 8
            /\ CharAt(r, 1) = "\""
            /\ SubSeq(r, 2, n + 1) = probe.title
            /\ SubSeq(r, n + 2, n + 4) = ".\" "
            /\ SubSeq(r, n + 5, n + m + 4) = probe.source
            /\ SubSeq(r, n + m + 5, n + m + 6) = ", "
            /\ IsDecimalOf(SubSeq(r, n + m + 7, Len(r) - 1), probe.year)
            /\ CharAt(r, Len(r)) = "."
            /\ (probe.title = "Test Paper" /\ probe.source = "Nature" /\ probe.year = 2024)
                 => r = "\"Test Paper.\" Nature, 2024."

C8_Witness ==
    /\ CitationDone
    /\ probe.title = "Test Paper"
    /\ probe.source = "Nature"
    /\ probe.year = 2024
    /\ probe.result = "\"Test Paper.\" Nature, 2024."

-----------------------------------------------------------------------------
(* The guardrail.                                                          *)

GuardDone == probe.fn = "before_model_callback" /\ probe.applied

Marked(content) ==
    \E j \in 1..Len(content.parts) :
       StrContains("BLOCKED", StrUpper(content.parts[j].text))

\* the last user message of the request carries the marker
LastUserMessageMarked(llm_request) ==
    /\ llm_request.present
    /\ \E i \in 1..Len(llm_request.contents) :
         /\ llm_request.contents[i].role = "user"
         /\ \A j \in (i + 1)..Len(llm_request.contents) :
              llm_request.contents[j].role # "user"
         /\ Marked(llm_request.contents[i])

\* C10: before_model_callback returns the replacement response exactly when
\* the last user message contains BLOCKED (case-insensitively), and None in
\* every other case, also when only an earlier or a model message has it.
C10_GuardReadsLastUserMessage ==
    GuardDone =>
        /\ probe.result \in {BlockedResponse, None}
        /\ (probe.result = BlockedResponse) <=> LastUserMessageMarked(probe.llm_request)

-----------------------------------------------------------------------------
(* Properties of the pipeline and the server.                              *)

DeclaredKeys == << "research_findings", "draft_report", "review_result" >>

BlockedText == "Request blocked by safety guardrail."

Range(f) == { f[i] : i \in DOMAIN f }

WrittenKeys(r) == [i \in 1..Len(req[r].writes) |-> req[r].writes[i].key]

\* the run of request r has started on a session
Started(r) == req[r].pc \in {"run", "end", "close", "done", "failed"} /\ req[r].rsid # ""

\* the non-empty texts of the parts of the events, in order
RECURSIVE PartTexts(_)
PartTexts(parts) ==
    IF parts = << >> THEN << >>
    ELSE (IF Head(parts).text # "" THEN << Head(parts).text >> ELSE << >>)
         \o PartTexts(Tail(parts))

RECURSIVE EmittedTexts(_)
EmittedTexts(events) ==
    IF events = << >> THEN << >>
    ELSE PartTexts(Head(events).content.parts) \o EmittedTexts(Tail(events))

\* the run of request r has emitted its last event, no stage having failed
Complete(r) == req[r].pc \in {"end", "close", "done"}

\* the run started from empty pipeline state
Fresh(r) == Started(r) /\ req[r].base.state = EmptyState

\* C1: a run that starts from empty state and in which no stage fails ends
\* with exactly the keys research_findings, draft_report and review_result
\* in the state; the run writes them in that order, none twice, and (no
\* other run being at work on the session) each write goes to a key the
\* state does not hold yet.
C1_ThreeKeysInStageOrder ==
    \A r \in Requests :
       Fresh(r) =>
          LET w  == WrittenKeys(r)
              st == store[req[r].rsid].state
          IN  /\ Len(w) <= Len(DeclaredKeys)
              /\ w = SubSeq(DeclaredKeys, 1, Len(w))
              /\ Complete(r) =>
                    /\ w = DeclaredKeys
                    /\ DOMAIN st = Range(DeclaredKeys)
              /\ (req[r].alone /\ req[r].pc = "run") =>
                    /\ req[r].stage = Len(w) + 1
                    /\ DOMAIN st = Range(w)
                    /\ sub_agents[req[r].stage].output_key \notin DOMAIN st

C1_Witness ==
    \E r \in Requests :
       /\ Fresh(r)
       /\ req[r].alone
       /\ req[r].pc = "done"
       /\ WrittenKeys(r) = DeclaredKeys
       /\ DOMAIN store[req[r].rsid].state = Range(DeclaredKeys)

\* the request the guard of stage 1 sees when the run of r starts
FirstRequest(r) ==
    [present  |-> TRUE,
     contents |-> req[r].base.history
                  \o << Content("user", << TextPart(req[r].message) >>) >>]

StageOneOver(r) == Started(r) /\ ~(req[r].pc = "run" /\ req[r].stage = 1)

\* the writer's and the reviewer's instruction around their placeholder
WriterHead ==
    "You are a technical writer. Based on the research findings below,\nwrite a concise research summary report (3-4 paragraphs).\n\nResearch findings:\n"

WriterTail ==
    "\n\nInclude:\n- Overview of the topic and its significance\n- Key findings from the articles\n- Publication trends and statistics\n- Recommended areas for further study\n\nUse format_citation for any article references."

ReviewerHead == "You are a quality reviewer. Review this draft report:\n\n"

ReviewerTail ==
    "\n\nEvaluate on:\n1. Accuracy - Are the facts and citations correct?\n2. Clarity - Is it easy to understand?\n3. Completeness - Does it cover key aspects?\n\nProvide a quality score (1-10) and brief feedback.\nIf the score is 8 or above, approve with \"APPROVED\".\nOtherwise provide specific improvements needed."

\* C2: when the guard of stage 1 returns its replacement, research_findings
\* is stored as the replacement text, the reasoning service is not invoked
\* for stage 1, and the run goes on: the writer is invoked and the reviewer
\* after it, and (no other run being at work on the session) the writer is
\* given the replacement text for research_findings.
C2_GuardShortCircuit ==
    \A r \in Requests :
       (StageOneOver(r) /\ before_model_callback(FirstRequest(r)) # None) =>
          /\ Len(req[r].writes) >= 1
          /\ req[r].writes[1] = [key |-> "research_findings", value |-> BlockedText]
          /\ \A i \in 1..Len(req[r].llm) : req[r].llm[i].stage # 1
          /\ req[r].stage >= 2
          /\ req[r].alone =>
                \A i \in 1..Len(req[r].llm) :
                   req[r].llm[i].stage = 2 =>
                      req[r].llm[i].prompt = WriterHead \o BlockedText \o WriterTail
          /\ Complete(r) =>
                /\ \E i \in 1..Len(req[r].llm) : req[r].llm[i].stage = 2
                /\ \E i \in 1..Len(req[r].llm) : req[r].llm[i].stage = 3
                /\ WrittenKeys(r) = DeclaredKeys

C2_Witness ==
    \E r \in Requests :
       /\ req[r].pc = "done"
       /\ req[r].alone
       /\ before_model_callback(FirstRequest(r)) # None
       /\ req[r].writes[1].value = BlockedText
       /\ req[r].llm # << >>
       /\ req[r].llm[1].stage = 2

\* C3: when the reasoning service fails in stage k the run ends there: the
\* failed invocation is the last one (no retry, no later stage), no output
\* key of stage k or of a later stage is written by the run, and the
\* handler ends with the failure, not with a normal result.
C3_FailureAborts ==
    \A r \in Requests :
       \A i \in 1..Len(req[r].llm) :
          req[r].llm[i].failed =>
             LET k == req[r].llm[i].stage
             IN  /\ i = Len(req[r].llm)
                 /\ req[r].pc = "failed"
                 /\ req[r].response = "exception"
                 /\ req[r].stage = k
                 /\ Range(WrittenKeys(r)) = { DeclaredKeys[j] : j \in 1..(k - 1) }
                 /\ \A e \in 1..Len(req[r].emitted) :
                       \E j \in 1..k : req[r].emitted[e].author = sub_agents[j].name
                 \* the stream got its text frames and no closing sentinel
                 /\ req[r].kind = "stream" =>
                       Len(req[r].out) = Len(EmittedTexts(req[r].emitted))

C3_Witness ==
    \E r \in Requests :
       /\ req[r].pc = "failed"
       /\ req[r].stage = 2
       /\ req[r].llm[Len(req[r].llm)].failed
       /\ WrittenKeys(r) = << "research_findings" >>

\* the store holds a session with this identifier for this user
Holds(user_id, session_id) ==
    /\ session_id \in DOMAIN store
    /\ store[session_id].app = "research_assistant"
    /\ store[session_id].user = user_id

C4_Returned ==
    \A r \in Requests :
       req[r].sess # "" =>
          /\ Holds(req[r].user_id, req[r].sess)
          /\ ~req[r].created => (req[r].session_id # "" /\ req[r].sess = req[r].session_id)

C4_Step ==
    \A r \in Requests :
       \* the lookup: a hit returns the session and leaves the store alone
       /\ (req[r].pc = "idle" /\ req'[r].pc # "idle") =>
             /\ store' = store
             /\ IF req'[r].session_id # "" /\ Holds(req'[r].user_id, req'[r].session_id)
                THEN /\ req'[r].pc = "start"
                     /\ req'[r].sess = req'[r].session_id
                     /\ ~req'[r].created
                ELSE /\ req'[r].pc = "create"
                     /\ req'[r].sess = ""
       \* the creation: one new session, under an identifier the store had not
       /\ (req[r].pc = "create" /\ req'[r].pc # "create") =>
             /\ req'[r].sess \notin DOMAIN store
             /\ DOMAIN store' = DOMAIN store \cup {req'[r].sess}
             /\ \A s \in DOMAIN store : store'[s] = store[s]
             /\ store'[req'[r].sess] = NewSession("research_assistant", req[r].user_id)
             /\ req'[r].created
       \* nothing is created at any other step, and the session stays
       /\ req[r].pc \notin {"idle", "create"} =>
             /\ req'[r].sess = req[r].sess
             /\ req'[r].created = req[r].created
       /\ (\A q \in Requests : req[q].pc # "create") => DOMAIN store' = DOMAIN store

\* C4: get_or_create_session returns the session held for (user_id,
\* session_id) and leaves the store unchanged when there is one; otherwise it
\* creates exactly one session for user_id under an identifier the store did
\* not hold; the session returned always belongs to the caller's user_id.
C4_ReuseOrCreate == [] C4_Returned /\ [][C4_Step]_vars

C4_Witness ==
    /\ req[1].created
    /\ req[2].sess = req[1].sess
    /\ ~req[2].created
    /\ req[2].session_id = req[1].sess
    /\ Cardinality(DOMAIN store) = 1

RECURSIVE ApplyWrites(_, _)
ApplyWrites(state, writes) ==
    IF writes = << >> THEN state
    ELSE ApplyWrites(Put(state, Head(writes).key, Head(writes).value), Tail(writes))

\* the contents of the events, in order
RECURSIVE EventContents(_)
EventContents(events) ==
    IF events = << >> THEN << >>
    ELSE << Head(events).content >> \o EventContents(Tail(events))

\* what the session of r holds if nothing but the run of r touched it
OwnSession(r) ==
    [app     |-> req[r].base.app,
     user    |-> req[r].base.user,
     state   |-> ApplyWrites(req[r].base.state, req[r].writes),
     history |-> req[r].base.history
                 \o << Content("user", << TextPart(req[r].message) >>) >>
                 \o EventContents(req[r].emitted)]

\* the prompt of stage k of the run of r, from the run's own writes
OwnPrompt(r, k) ==
    CASE k = 1 -> researcher.instruction
      [] k = 2 -> WriterHead \o req[r].writes[1].value \o WriterTail
      [] k = 3 -> ReviewerHead \o req[r].writes[2].value \o ReviewerTail

\* C6: two requests served against different sessions do not touch each
\* other's session: under every interleaving each session holds exactly the
\* state and the history its own run gave it, and each run read its own.
C6_SessionsIsolated ==
    (req[1].sess # req[2].sess) =>
       \A r \in Requests :
          Started(r) =>
             /\ store[req[r].sess] = OwnSession(r)
             /\ req[r].base.state = EmptyState =>
                   \A i \in 1..Len(req[r].llm) :
                      LET k == req[r].llm[i].stage
                      IN  /\ Len(req[r].writes) >= k - 1
                          /\ req[r].llm[i].prompt = OwnPrompt(r, k)

C6_Witness ==
    /\ req[1].sess # req[2].sess
    /\ req[1].pc = "run" /\ req[1].stage = 3
    /\ req[2].pc = "run" /\ req[2].stage = 2
    /\ req[1].message # req[2].message
    /\ store[req[1].sess].history # store[req[2].sess].history

\* C9: stage 1 names no output key, the writer names only research_findings,
\* the reviewer only draft_report, each an output of an earlier stage; in a
\* run where no stage fails every prompt given to the reasoning service has
\* all its placeholders resolved.
C9_PlaceholdersResolved ==
    /\ Placeholders(1) = {}
    /\ Placeholders(2) = {"research_findings"}
    /\ Placeholders(3) = {"draft_report"}
    /\ \A n \in 1..NumStages :
          Placeholders(n) \subseteq { sub_agents[j].output_key : j \in 1..(n - 1) }
    /\ \A r \in Requests :
          Complete(r) =>
             \A i \in 1..Len(req[r].llm) :
                /\ req[r].llm[i].unresolved = {}
                /\ \E v \in { PartsText(TextParts(t)) : t \in scn.texts }
                             \cup {BlockedText} :
                      req[r].llm[i].prompt =
                         CASE req[r].llm[i].stage = 1 -> researcher.instruction
                           [] req[r].llm[i].stage = 2 -> WriterHead \o v \o WriterTail
                           [] req[r].llm[i].stage = 3 -> ReviewerHead \o v \o ReviewerTail

C9_Witness ==
    \E r \in Requests :
       /\ req[r].pc = "done"
       /\ \E i \in 1..Len(req[r].llm) :
             /\ req[r].llm[i].stage = 2
             /\ req[r].llm[i].prompt = WriterHead \o "ok" \o WriterTail
       /\ \E i \in 1..Len(req[r].llm) :
             /\ req[r].llm[i].stage = 3
             /\ req[r].llm[i].prompt = ReviewerHead \o "ok" \o ReviewerTail

\* C5: a completed streaming request yields one data: frame per non-empty
\* text part, in the order of the run, then the frame data: [DONE], which
\* occurs exactly once, as the last item; other parts yield no frame.
C5_SentinelOnceAndLast ==
    \A r \in Requests :
       (req[r].kind = "stream" /\ req[r].pc = "done") =>
          LET texts == EmittedTexts(req[r].emitted)
              out   == req[r].out
          IN  /\ Len(out) = Len(texts) + 1
              /\ \A i \in 1..Len(texts) : out[i] = "data: " \o texts[i] \o "\n\n"
              /\ out[Len(out)] = "data: [DONE]\n\n"
              /\ Cardinality({ i \in 1..Len(out) : out[i] = "data: [DONE]\n\n" }) = 1

====
